---- MODULE Spec2Model ----
(***************************************************************************)
(* LocalRAGPipeline (src/src/rag_pipeline.py): the in-memory engine state  *)
(* (self.documents, self.vector_index, self.knowledge_graph), the three    *)
(* artifacts under the storage root, and the operations that build, query, *)
(* save and load them.                                                     *)
(***************************************************************************)
EXTENDS Integers, Sequences, FiniteSets, TLC

VARIABLES
    documents,        \* self.documents: list of Document
    vector_index,     \* self.vector_index: None or a faiss IndexFlatL2
    knowledge_graph,  \* self.knowledge_graph: nx.DiGraph
    disk,             \* the files under self.storage_path
    last,             \* the last call made on the pipeline and how it ended;
                      \* last.clean: no call so far has raised
    calls,            \* the number of calls made so far
    index_ready,      \* a build_vector_index call has returned, or load has
                      \* installed an index file, on this pipeline object
    bpc, bdocs, bemb, \* a build_vector_index call in progress (thread 1)
    qpc, qarg, qhits, \* a vector_search call in progress (thread 2)
    tree              \* the files under a documents directory, in rglob order

vars == <<documents, vector_index, knowledge_graph, disk, last, calls,
          index_ready, bpc, bdocs, bemb, qpc, qarg, qhits, tree>>

engine == <<documents, vector_index, knowledge_graph>>
threads == <<bpc, bdocs, bemb, qpc, qarg, qhits>>

---------------------------------------------------------------------------
(* Bounds of the model *)

MaxDocs == 2          \* longest document list handed to a build
MaxCalls == 4         \* calls in a run of builds, saves and loads
MaxSearchCalls == 3   \* calls in a run of builds and searches
MaxConcCalls == 3     \* calls started by the two threads together
MaxK == 3             \* largest top_k of a query
embedding_dim == 2    \* get_sentence_embedding_dimension() of the model
MaxFiles == 3         \* most files under a documents directory

---------------------------------------------------------------------------
(* Python values *)

\* Optional[np.ndarray] = None
NoEmbedding == <<>>

\* dict.get(key): the value, or None when the key is absent
PyNone == "None"
DictGet(d, key) ==
    IF \E kv \in d : kv[1] = key
    THEN (CHOOSE kv \in d : kv[1] = key)[2]
    ELSE PyNone

\* dict.update(new): keys of new win, the others stay
DictUpdate(old, new) ==
    [k \in (DOMAIN old) \cup (DOMAIN new) |->
        IF k \in DOMAIN new THEN new[k] ELSE old[k]]

EmptyDict == [k \in {} |-> PyNone]

\* seq[idx] with a 0-based idx; a negative idx counts from the end
PyInRange(seq, idx) == idx < Len(seq) /\ idx >= 0 - Len(seq)
PyIndex(seq, idx) == IF idx >= 0 THEN seq[idx + 1] ELSE seq[Len(seq) + idx + 1]

UpperChars ==
    {"A", "B", "C", "D", "E", "F", "G", "H", "I", "J", "K", "L", "M",
     "N", "O", "P", "Q", "R", "S", "T", "U", "V", "W", "X", "Y", "Z"}

\* w[0].isupper()
IsUpperFirst(w) == Len(w) > 0 /\ SubSeq(w, 1, 1) \in UpperChars

Range(s) == {s[i] : i \in 1..Len(s)}

---------------------------------------------------------------------------
(* Documents.  content is held as content.split(), the list of its         *)
(* whitespace-delimited tokens; metadata is a dict, held as its items.     *)

Document(id, content, metadata) ==
    [doc_id |-> id, content |-> content, metadata |-> metadata,
     embedding |-> NoEmbedding]

DocPool ==
    { Document("Notes_0", <<"Python", "text">>, {<<"source", "x">>}),
      Document("Notes_1", <<"uses", "Notes_0">>, {<<"source", "x">>}),
      Document("Guide_0", <<"Guide", "cooking">>, {}),
      Document("Guide_1", <<"Python", "cooking">>, {}) }

\* the document lists a caller passes to a build: no document twice
RECURSIVE ListsOfLen(_)
ListsOfLen(n) ==
    IF n = 0 THEN {<<>>}
    ELSE {Append(l, d) : l \in ListsOfLen(n - 1), d \in DocPool}

DocLists ==
    {l \in UNION {ListsOfLen(n) : n \in 0..MaxDocs} :
        \A i, j \in 1..Len(l) : i # j => l[i] # l[j]}

\* query strings, as query.split(): an entity, words that are no node, and a
\* document id
Queries == {<<"Python">>, <<"Guide", "cooking">>, <<"Notes_0">>}

---------------------------------------------------------------------------
(* The embedding model (external): a fixed map from text to a vector of    *)
(* embedding_dim numbers.  Component i sums the lengths of the tokens      *)
(* whose length is i-1 modulo embedding_dim.                               *)

RECURSIVE SumLens(_, _)
SumLens(words, i) ==
    IF words = <<>> THEN 0
    ELSE (IF Len(Head(words)) % embedding_dim = i - 1 THEN Len(Head(words)) ELSE 0)
         + SumLens(Tail(words), i)

Encode(words) == [i \in 1..embedding_dim |-> SumLens(words, i)]

\* embedding_model.encode(texts): one row per text
EncodeAll(docs) == [i \in 1..Len(docs) |-> Encode(docs[i].content)]

\* for doc, emb in zip(documents, embeddings): doc.embedding = emb
WithEmbeddings(docs, embeddings) ==
    [i \in 1..Len(docs) |-> [docs[i] EXCEPT !.embedding = embeddings[i]]]

---------------------------------------------------------------------------
(* faiss.IndexFlatL2 (external): the rows added, searched exactly.         *)

None == [is_none |-> TRUE, xb |-> <<>>]
IndexFlatL2 == [is_none |-> FALSE, xb |-> <<>>]
IndexAdd(index, rows) == [index EXCEPT !.xb = index.xb \o rows]

RECURSIVE SqDist(_, _, _)
SqDist(u, v, i) ==
    IF i = 0 THEN 0
    ELSE (u[i] - v[i]) * (u[i] - v[i]) + SqDist(u, v, i - 1)

L2(u, v) == SqDist(u, v, embedding_dim)

\* the distance faiss reports for a missing neighbour (the largest float32);
\* larger than every distance of the model
FLT_MAX == 1000

\* the rows of the index by increasing distance to qv (lower row first on a
\* tie), as (distance, 0-based row) pairs
RECURSIVE Nearest(_, _, _)
Nearest(index, qv, left) ==
    IF left = {} THEN <<>>
    ELSE LET best == CHOOSE r \in left : \A s \in left :
                        \/ L2(index.xb[r], qv) < L2(index.xb[s], qv)
                        \/ L2(index.xb[r], qv) = L2(index.xb[s], qv) /\ r <= s
         IN <<[dist |-> L2(index.xb[best], qv), idx |-> best - 1]>>
            \o Nearest(index, qv, left \ {best})

\* index.search(qv, k): always k pairs; when the index holds fewer than k
\* rows the missing ones are (FLT_MAX, -1)
FaissSearch(index, qv, k) ==
    LET found == Nearest(index, qv, 1..Len(index.xb))
    IN [i \in 1..k |->
          IF i <= Len(found) THEN found[i] ELSE [dist |-> FLT_MAX, idx |-> 0 - 1]]

---------------------------------------------------------------------------
(* networkx.DiGraph (external): node -> attribute dict, and one attribute  *)
(* dict per ordered pair of nodes.                                         *)

DiGraph == [node |-> EmptyDict, adj |-> EmptyDict]

HasNode(G, n) == n \in DOMAIN G.node

\* add_node(n, **attrs): a new node, or an update of the node's attributes
AddNode(G, n, attrs) ==
    [G EXCEPT !.node =
        [m \in (DOMAIN G.node) \cup {n} |->
            IF m = n
            THEN DictUpdate(IF HasNode(G, n) THEN G.node[n] ELSE EmptyDict, attrs)
            ELSE G.node[m]]]

\* add_edge(u, v, **attrs): missing end points become nodes without
\* attributes; an edge u -> v that exists has its attributes updated
AddEdge(G, u, v, attrs) ==
    LET G1 == AddNode(AddNode(G, u, EmptyDict), v, EmptyDict)
    IN [G1 EXCEPT !.adj =
          [e \in (DOMAIN G1.adj) \cup {<<u, v>>} |->
              IF e = <<u, v>>
              THEN DictUpdate(IF e \in DOMAIN G1.adj THEN G1.adj[e] ELSE EmptyDict,
                              attrs)
              ELSE G1.adj[e]]]

\* neighbors(n) of a DiGraph: the successors of n
Neighbors(G, n) == {e[2] : e \in {f \in DOMAIN G.adj : f[1] = n}}

\* degree(n): in-degree plus out-degree
Degree(G, n) ==
    Cardinality({e \in DOMAIN G.adj : e[1] = n})
    + Cardinality({e \in DOMAIN G.adj : e[2] = n})

NumberOfNodes(G) == Cardinality(DOMAIN G.node)
NumberOfEdges(G) == Cardinality(DOMAIN G.adj)

\* nodes[n].get("type")
NodeType(G, n) == IF "type" \in DOMAIN G.node[n] THEN G.node[n]["type"] ELSE PyNone

DocumentNodes(G) == {n \in DOMAIN G.node : NodeType(G, n) = "document"}

---------------------------------------------------------------------------
(* build_knowledge_graph *)

PREVIEW_CHARS == 200

\* content[:n], on the token list
RECURSIVE Slice(_, _)
Slice(words, n) ==
    IF words = <<>> \/ n <= 0 THEN <<>>
    ELSE IF Len(Head(words)) <= n
         THEN <<Head(words)>> \o Slice(Tail(words), n - Len(Head(words)) - 1)
         ELSE <<SubSeq(Head(words), 1, n)>>

\* [w for w in words if len(w) > 5 and w[0].isupper()], as set(entities)
Entities(content) ==
    {w \in Range(content) : Len(w) > 5 /\ IsUpperFirst(w)}

\* if not has_node(entity): add_node(entity, type="entity")
UpsertEntityInverted(G, entity) ==
    IF HasNode(G, entity) THEN AddNode(G, entity, [type |-> "entity"]) ELSE G

UpsertEntity(G, entity) ==
    IF ~HasNode(G, entity) THEN AddNode(G, entity, [type |-> "entity"]) ELSE G

\* for entity in set(entities): upsert the node, add the contains edge
RECURSIVE AddEntities(_, _, _)
AddEntities(G, doc, ents) ==
    IF ents = {} THEN G
    ELSE LET entity == CHOOSE x \in ents : TRUE
         IN AddEntities(
                AddEdge(UpsertEntity(G, entity), doc.doc_id, entity,
                        [relation |-> "contains"]),
                doc, ents \ {entity})

\* for other_doc in documents: link the documents with the same source
RECURSIVE LinkSameSource(_, _, _, _)
LinkSameSource(G, doc, docs, j) ==
    IF j > Len(docs) THEN G
    ELSE LET other_doc == docs[j]
             linked ==
                 IF /\ doc.doc_id # other_doc.doc_id
                    /\ DictGet(doc.metadata, "source")
                         = DictGet(other_doc.metadata, "source")
                 THEN AddEdge(G, doc.doc_id, other_doc.doc_id,
                              [relation |-> "same_source"])
                 ELSE G
         IN LinkSameSource(linked, doc, docs, j + 1)

\* the body of the loop over documents, for documents[i]
AddDocument(G, docs, i) ==
    LET doc == docs[i]
        G1 == AddNode(G, doc.doc_id,
                      [content |-> Slice(doc.content, PREVIEW_CHARS),
                       type |-> "document",
                       metadata |-> doc.metadata])
        G2 == AddEntities(G1, doc, Entities(doc.content))
    IN LinkSameSource(G2, doc, docs, 1)

RECURSIVE BuildGraphFrom(_, _, _)
BuildGraphFrom(G, docs, i) ==
    IF i > Len(docs) THEN G
    ELSE BuildGraphFrom(AddDocument(G, docs, i), docs, i + 1)

BuildKnowledgeGraph(G, docs) == BuildGraphFrom(G, docs, 1)

---------------------------------------------------------------------------
(* vector_search *)

\* raise ValueError("Vector index not built. Call build_vector_index first.")
NotBuilt == "ValueError: not built"

Raise(error) == [outcome |-> error, value |-> <<>>]
Return(value) == [outcome |-> "ok", value |-> value]

\* if idx < len(self.documents)
RowGuard(docs, hit) == hit.idx < Len(docs)

\* for dist, idx in zip(distances[0], indices[0]): ... results.append(...)
CollectResults(docs, hits) ==
    LET kept == SelectSeq(hits, LAMBDA h : RowGuard(docs, h))
    IN IF \E i \in 1..Len(kept) : ~PyInRange(docs, kept[i].idx)
       THEN Raise("IndexError")
       ELSE Return([i \in 1..Len(kept) |->
                      [doc |-> PyIndex(docs, kept[i].idx), dist |-> kept[i].dist]])

VectorSearch(docs, index, query, top_k) ==
    IF index.is_none
    THEN Raise(NotBuilt)
    ELSE CollectResults(docs, FaissSearch(index, Encode(query), top_k))

---------------------------------------------------------------------------
(* graph_search *)

Perms(S) ==
    {p \in [1..Cardinality(S) -> S] :
        \A i, j \in 1..Cardinality(S) : i # j => p[i] # p[j]}

FirstK(s, k) == SubSeq(s, 1, IF k < Len(s) THEN k ELSE Len(s))

\* {doc.doc_id: doc for doc in self.documents}: the last document with an id
DocMapHas(docs, id) == \E i \in 1..Len(docs) : docs[i].doc_id = id
DocMap(docs, id) ==
    docs[CHOOSE i \in 1..Len(docs) :
            /\ docs[i].doc_id = id
            /\ \A j \in 1..Len(docs) : docs[j].doc_id = id => j <= i]

\* [doc_map[doc_id] for doc_id in top_doc_ids if doc_id in doc_map]
MapDocs(docs, ids) ==
    LET known == SelectSeq(ids, LAMBDA id : DocMapHas(docs, id))
    IN [i \in 1..Len(known) |-> DocMap(docs, known[i])]

\* [w for w in query.split() if len(w) > 3]
QueryEntities(query) == SelectSeq(query, LAMBDA w : Len(w) > 3)

\* the entity itself and its neighbors, for every query entity that is a node
RelevantNodes(G, query) ==
    UNION {{entity} \cup Neighbors(G, entity) :
             entity \in {w \in Range(QueryEntities(query)) : HasNode(G, w)}}

\* the keys of doc_scores
ScoredDocs(G, query) ==
    {node \in RelevantNodes(G, query) : NodeType(G, node) = "document"}

\* sorted(doc_scores, key=score, reverse=True) with
\* score = 0.5 * degree + 0.5 * pagerank.  nx.pagerank (external) gives every
\* node a value in (0, 1), so a node of larger degree has the larger score;
\* among nodes of equal degree the order is the one pagerank and the set's
\* iteration order give, any of which may occur.
ScoreOrders(G, ids) ==
    {p \in Perms(ids) :
        \A i, j \in 1..Len(p) : i < j => Degree(G, p[i]) >= Degree(G, p[j])}

\* the lists graph_search may return
GraphSearch(docs, G, query, top_k) ==
    {MapDocs(docs, FirstK(order, top_k)) : order \in ScoreOrders(G, ScoredDocs(G, query))}

---------------------------------------------------------------------------
(* hybrid_search.  Weights are given in tenths (7 for 0.7); a score is the *)
(* fraction num / den.                                                     *)

Weights == {<<7, 3>>, <<10, 0>>, <<0, 10>>}
DefaultWeights == <<7, 3>>

\* position of the last entry of a list whose document has this id, 0 if none
LastWithId(results, id) ==
    LET at == {i \in 1..Len(results) : results[i].doc_id = id}
    IN IF at = {} THEN 0 ELSE CHOOSE i \in at : \A j \in at : j <= i

\* vector_scores.get(doc_id, 0): 1 / (1 + distance) of the entry the dict kept
VScore(vector_results, id) ==
    LET i == LastWithId([n \in 1..Len(vector_results) |-> vector_results[n].doc], id)
    IN IF i = 0 THEN [num |-> 0, den |-> 1]
       ELSE [num |-> 1, den |-> 1 + vector_results[i].dist]

\* graph_scores.get(doc_id, 0): 1.0 / (i + 1) for the 0-based rank i
GScore(graph_results, id) ==
    LET i == LastWithId(graph_results, id)
    IN IF i = 0 THEN [num |-> 0, den |-> 1] ELSE [num |-> 1, den |-> i]

\* vector_weight * v_score + graph_weight * g_score
Combined(vector_results, graph_results, w, id) ==
    LET v == VScore(vector_results, id)
        g == GScore(graph_results, id)
    IN [num |-> w[1] * v.num * g.den + w[2] * g.num * v.den,
        den |-> v.den * g.den]

Less(a, b) == a.num * b.den < b.num * a.den

\* sorted(combined_scores, key=score, reverse=True): ties in any order
CombinedOrders(vector_results, graph_results, w) ==
    LET ids == {vector_results[i].doc.doc_id : i \in 1..Len(vector_results)}
                 \cup {graph_results[i].doc_id : i \in 1..Len(graph_results)}
    IN {p \in Perms(ids) :
          \A i, j \in 1..Len(p) : i < j =>
              ~Less(Combined(vector_results, graph_results, w, p[i]),
                    Combined(vector_results, graph_results, w, p[j]))}

\* the outcomes hybrid_search may have
HybridSearch(docs, index, G, query, top_k, w) ==
    LET vs == VectorSearch(docs, index, query, top_k * 2)
    IN IF vs.outcome # "ok" THEN {vs}
       ELSE {Return(MapDocs(docs, FirstK(order, top_k))) :
               order \in UNION {CombinedOrders(vs.value, gs, w) :
                                  gs \in GraphSearch(docs, G, query, top_k * 2)}}

\* the retrieval step of query(): the documents handed to generate_answer
Retrieve(docs, index, G, question, search_type, top_k) ==
    IF search_type = "vector"
    THEN LET vs == VectorSearch(docs, index, question, top_k)
         IN IF vs.outcome # "ok" THEN {vs}
            ELSE {Return([i \in 1..Len(vs.value) |-> vs.value[i].doc])}
    ELSE IF search_type = "graph"
    THEN {Return(gs) : gs \in GraphSearch(docs, G, question, top_k)}
    ELSE HybridSearch(docs, index, G, question, top_k, DefaultWeights)

---------------------------------------------------------------------------
(* build_vector_index, as one call.  encode_ok: whether the embedding      *)
(* model returns (it is external and may raise).  For an empty list encode *)
(* returns an array of shape (0,), which IndexFlatL2.add rejects after the *)
(* empty index has been assigned.                                          *)

BuildVectorIndex(eng, docs, encode_ok) ==
    IF ~encode_ok
    THEN [documents |-> docs, vector_index |-> eng.vector_index,
          outcome |-> "EncodeError"]
    ELSE IF docs = <<>>
    THEN [documents |-> docs, vector_index |-> IndexFlatL2,
          outcome |-> "ValueError: shape"]
    ELSE [documents |-> WithEmbeddings(docs, EncodeAll(docs)),
          vector_index |-> IndexAdd(IndexFlatL2, EncodeAll(docs)),
          outcome |-> "ok"]

---------------------------------------------------------------------------
(* save and load.  A file is absent, or holds what was written and, for    *)
(* the record, the engine state it was written from.                       *)

Absent == [exists |-> FALSE]
File(data, eng) == [exists |-> TRUE, data |-> data, from |-> eng]

EmptyDisk == [documents |-> Absent, vector_index |-> Absent, knowledge_graph |-> Absent]

Engine(docs, index, G) ==
    [documents |-> docs, vector_index |-> index, knowledge_graph |-> G]

\* save(), stopped after `steps` of its three steps (3: it returns)
SAVE_STEPS == 3

Save(eng, dsk, steps) ==
    LET d1 == [dsk EXCEPT !.documents = File(eng.documents, eng)]
        d2 == IF steps >= 2 /\ ~eng.vector_index.is_none
              THEN [d1 EXCEPT !.vector_index = File(eng.vector_index, eng)]
              ELSE d1
        d3 == IF steps >= SAVE_STEPS
              THEN [d2 EXCEPT !.knowledge_graph = File(eng.knowledge_graph, eng)]
              ELSE d2
    IN d3

\* what a read of a file may do: "none" of the files is unreadable, or the
\* read of the named file raises (pickle.load, faiss.read_index and
\* nx.read_gpickle are external and raise on a file they cannot decode)
Unreadable == {"none", "documents", "vector_index", "knowledge_graph"}

\* load(): the engine it leaves, and how it ends.  The three reads run in
\* the order of the code, each assigning its attribute as soon as it returns.
Load(eng, dsk, broken) ==
    LET e1 == [eng EXCEPT !.documents = dsk.documents.data]
        e2 == IF dsk.vector_index.exists
              THEN [e1 EXCEPT !.vector_index = dsk.vector_index.data] ELSE e1
        e3 == IF dsk.knowledge_graph.exists
              THEN [e2 EXCEPT !.knowledge_graph = dsk.knowledge_graph.data] ELSE e2
    IN IF ~dsk.documents.exists
       THEN [engine |-> eng, outcome |-> "FileNotFoundError"]
       ELSE IF broken = "documents"
       THEN [engine |-> eng, outcome |-> "UnpicklingError"]
       ELSE IF broken = "vector_index" /\ dsk.vector_index.exists
       THEN [engine |-> e1, outcome |-> "RuntimeError"]
       ELSE IF broken = "knowledge_graph" /\ dsk.knowledge_graph.exists
       THEN [engine |-> e2, outcome |-> "UnpicklingError"]
       ELSE [engine |-> e3, outcome |-> "ok"]

\* the engine of a pipeline object right after __init__
NewEngine == Engine(<<>>, None, DiGraph)

Current == Engine(documents, vector_index, knowledge_graph)

---------------------------------------------------------------------------
(* The calls, one action each *)

Call(op, arg, outcome, value) ==
    [op |-> op, arg |-> arg, outcome |-> outcome, value |-> value,
     clean |-> last.clean /\ outcome = "ok"]

\* the pipeline object after __init__, on an empty storage root
InitPipeline ==
    /\ documents = <<>>
    /\ vector_index = None
    /\ knowledge_graph = DiGraph
    /\ disk = EmptyDisk
    /\ last = [op |-> "__init__", arg |-> <<>>, outcome |-> "ok", value |-> <<>>,
               clean |-> TRUE]
    /\ calls = 0
    /\ index_ready = FALSE
    /\ bpc = "idle" /\ bdocs = <<>> /\ bemb = <<>>
    /\ qpc = "idle" /\ qarg = <<>> /\ qhits = <<>>

Init == InitPipeline /\ tree = <<>>

\* LocalRAGPipeline(storage_path=...): a new object on the same storage root
init ==
    /\ documents' = NewEngine.documents
    /\ vector_index' = NewEngine.vector_index
    /\ knowledge_graph' = NewEngine.knowledge_graph
    /\ last' = Call("__init__", <<>>, "ok", <<>>)
    /\ index_ready' = FALSE
    /\ UNCHANGED <<disk, threads, tree>>

build_vector_index ==
    \E docs \in DocLists, encode_ok \in BOOLEAN :
        LET r == BuildVectorIndex(Current, docs, encode_ok)
        IN /\ documents' = r.documents
           /\ vector_index' = r.vector_index
           /\ last' = Call("build_vector_index", docs, r.outcome, <<>>)
           /\ index_ready' = (index_ready \/ r.outcome = "ok")
           /\ UNCHANGED <<knowledge_graph, disk, threads, tree>>

build_knowledge_graph ==
    \E docs \in DocLists :
        /\ knowledge_graph' = BuildKnowledgeGraph(knowledge_graph, docs)
        /\ last' = Call("build_knowledge_graph", docs, "ok",
                         last.op = "build_knowledge_graph" /\ last.arg = docs)
        /\ UNCHANGED <<documents, vector_index, disk, index_ready, threads, tree>>

save ==
    \E steps \in 1..SAVE_STEPS :
        /\ disk' = Save(Current, disk, steps)
        /\ last' = Call("save", <<>>, IF steps = SAVE_STEPS THEN "ok" ELSE "IOError", <<>>)
        /\ UNCHANGED <<engine, index_ready, threads, tree>>

load ==
    \E broken \in Unreadable :
        LET r == Load(Current, disk, broken)
        IN /\ documents' = r.engine.documents
           /\ vector_index' = r.engine.vector_index
           /\ knowledge_graph' = r.engine.knowledge_graph
           /\ last' = Call("load", <<>>, r.outcome, <<>>)
           /\ index_ready' = (index_ready
                                \/ (r.outcome = "ok" /\ disk.vector_index.exists))
           /\ UNCHANGED <<disk, threads, tree>>

vector_search ==
    \E query \in Queries, top_k \in 1..MaxK :
        LET r == VectorSearch(documents, vector_index, query, top_k)
        IN /\ last' = Call("vector_search", <<query, top_k>>, r.outcome, r.value)
           /\ UNCHANGED <<engine, disk, index_ready, threads, tree>>

\* graph_search that leaves the seed it looked up as a node of the graph
graph_search_adding_seed ==
    \E query \in Queries, top_k \in 1..MaxK :
        \E r \in GraphSearch(documents, knowledge_graph, query, top_k) :
           /\ last' = Call("graph_search", <<query, top_k>>, "ok", r)
           /\ knowledge_graph' = AddNode(knowledge_graph, query[1], EmptyDict)
           /\ UNCHANGED <<documents, vector_index, disk, index_ready, threads, tree>>

graph_search ==
    \E query \in Queries, top_k \in 1..MaxK :
        \E r \in GraphSearch(documents, knowledge_graph, query, top_k) :
           /\ last' = Call("graph_search", <<query, top_k>>, "ok", r)
           /\ UNCHANGED <<engine, disk, index_ready, threads, tree>>

hybrid_search ==
    \E query \in Queries, top_k \in 1..MaxK, w \in Weights :
        \E r \in HybridSearch(documents, vector_index, knowledge_graph,
                              query, top_k, w) :
           /\ last' = Call("hybrid_search", <<query, top_k, w>>, r.outcome, r.value)
           /\ UNCHANGED <<engine, disk, index_ready, threads, tree>>

query ==
    \E question \in Queries, search_type \in {"vector", "graph", "hybrid"},
       top_k \in 1..MaxK :
        \E r \in Retrieve(documents, vector_index, knowledge_graph,
                          question, search_type, top_k) :
           /\ last' = Call("query", <<question, search_type, top_k>>, r.outcome, r.value)
           /\ UNCHANGED <<engine, disk, index_ready, threads, tree>>

---------------------------------------------------------------------------
(* build_vector_index and vector_search statement by statement, for two    *)
(* threads that share the pipeline object (the code takes no lock).        *)

\* self.documents = documents
bvi_assign ==
    \E docs \in DocLists :
        /\ bpc = "idle"
        /\ documents' = docs
        /\ bdocs' = docs
        /\ bpc' = "encode"
        /\ UNCHANGED <<vector_index, knowledge_graph, disk, last, index_ready,
                       bemb, qpc, qarg, qhits, tree>>

\* embeddings = self.embedding_model.encode(texts, ...)
bvi_encode ==
    \E encode_ok \in BOOLEAN :
        /\ bpc = "encode"
        /\ bemb' = IF encode_ok THEN EncodeAll(bdocs) ELSE bemb
        /\ bpc' = IF encode_ok THEN "attach" ELSE "idle"
        /\ last' = [last EXCEPT !.clean = last.clean /\ encode_ok]
        /\ UNCHANGED <<engine, disk, index_ready, bdocs, qpc, qarg, qhits, tree>>

\* for doc, emb in zip(documents, embeddings): doc.embedding = emb
bvi_attach ==
    /\ bpc = "attach"
    /\ documents' = WithEmbeddings(bdocs, bemb)
    /\ bpc' = "create"
    /\ UNCHANGED <<vector_index, knowledge_graph, disk, last, index_ready,
                   bdocs, bemb, qpc, qarg, qhits, tree>>

\* self.vector_index = faiss.IndexFlatL2(self.embedding_dim)
bvi_create ==
    /\ bpc = "create"
    /\ vector_index' = IndexFlatL2
    /\ bpc' = "add"
    /\ UNCHANGED <<documents, knowledge_graph, disk, last, index_ready,
                   bdocs, bemb, qpc, qarg, qhits, tree>>

\* self.vector_index.add(embeddings.astype("float32"))
bvi_add ==
    /\ bpc = "add"
    /\ vector_index' = IF bdocs = <<>> THEN vector_index
                       ELSE IndexAdd(vector_index, bemb)
    /\ index_ready' = (index_ready \/ bdocs # <<>>)
    /\ last' = [last EXCEPT !.clean = last.clean /\ bdocs # <<>>]
    /\ bpc' = "idle"
    /\ UNCHANGED <<documents, knowledge_graph, disk, bdocs, bemb,
                   qpc, qarg, qhits, tree>>

\* if self.vector_index is None: raise ValueError(...)
vs_check ==
    \E q \in Queries, top_k \in 1..MaxK :
        /\ qpc = "idle"
        /\ IF vector_index.is_none
           THEN /\ last' = Call("vector_search", <<q, top_k>>, NotBuilt, <<>>)
                /\ UNCHANGED <<qpc, qarg>>
           ELSE /\ qarg' = <<q, top_k>>
                /\ qpc' = "search"
                /\ UNCHANGED last
        /\ UNCHANGED <<engine, disk, index_ready, bpc, bdocs, bemb, qhits, tree>>

\* distances, indices = self.vector_index.search(query_embedding, top_k)
vs_search ==
    /\ qpc = "search"
    /\ qhits' = FaissSearch(vector_index, Encode(qarg[1]), qarg[2])
    /\ qpc' = "collect"
    /\ UNCHANGED <<engine, disk, last, index_ready, bpc, bdocs, bemb, qarg, tree>>

\* the loop over zip(distances[0], indices[0]), and return results
vs_collect ==
    /\ qpc = "collect"
    /\ LET r == CollectResults(documents, qhits)
       IN last' = Call("vector_search", qarg, r.outcome, r.value)
    /\ qpc' = "idle"
    /\ UNCHANGED <<engine, disk, index_ready, bpc, bdocs, bemb, qarg, qhits, tree>>

---------------------------------------------------------------------------
(* load_documents.  A file has a directory, a stem and a suffix; raw is what *)
(* its loader yields, each raw document given as the list of chunks the text *)
(* splitter makes of it (loaders and splitter are external), or "error" when *)
(* the loader raises.                                                        *)

SourceFile(dir, stem, suffix, raw) ==
    [dir |-> dir, stem |-> stem, suffix |-> suffix, raw |-> raw]

FilePool ==
    { SourceFile("a", "notes", ".txt", << << <<"alpha">>, <<"beta">> >> >>),
      SourceFile("a", "notes", ".md", << << <<"gamma">> >> >>),
      SourceFile("b", "notes", ".txt", << << <<"delta">> >> >>),
      SourceFile("a", "rows", ".csv", << << <<"row", "one">> >>, << <<"row", "two">> >> >>),
      SourceFile("a", "guide", ".txt", << << <<"Guide">> >> >>),
      SourceFile("a", "image", ".png", << << <<"pixels">> >> >>),
      SourceFile("a", "broken", ".pdf", "error") }

RECURSIVE FileListsOfLen(_)
FileListsOfLen(n) ==
    IF n = 0 THEN {<<>>}
    ELSE {Append(l, f) : l \in FileListsOfLen(n - 1), f \in FilePool}

\* the directories handed to load_documents: no file twice
Trees ==
    {l \in UNION {FileListsOfLen(n) : n \in 0..MaxFiles} :
        \A i, j \in 1..Len(l) : i # j => l[i] # l[j]}

\* the keys of the loaders dict
Loaders == {".txt", ".pdf", ".docx", ".md", ".csv"}

\* str(file_path)
PathStr(f) == f.dir \o "/" \o f.stem \o f.suffix

\* the Document made of chunk i (0-based) of the splits of one raw document
Chunk(f, splits, i) ==
    Document(f.stem \o "_" \o ToString(i), splits[i + 1],
             {<<"source", PathStr(f)>>,
              <<"chunk_id", ToString(i)>>,
              <<"total_chunks", ToString(Len(splits))>>})

\* for doc in raw_docs: for i, split in enumerate(splits): chunks.append(...)
RECURSIVE ChunksOf(_, _)
ChunksOf(f, raw_docs) ==
    IF raw_docs = <<>> THEN <<>>
    ELSE [i \in 1..Len(Head(raw_docs)) |-> Chunk(f, Head(raw_docs), i - 1)]
         \o ChunksOf(f, Tail(raw_docs))

\* _load_single_file(file_path)
LoadSingleFile(f) ==
    IF f.suffix \notin Loaders THEN <<>>
    ELSE IF f.raw = "error" THEN <<>>
    ELSE ChunksOf(f, f.raw)

\* the loop of load_documents over path.rglob("*")
RECURSIVE LoadDir(_)
LoadDir(files) ==
    IF files = <<>> THEN <<>>
    ELSE LoadSingleFile(Head(files)) \o LoadDir(Tail(files))

\* load_documents(path) for a path that is a file
load_documents_file ==
    \E f \in Range(tree) :
        /\ last' = Call("load_documents", <<f>>, "ok", LoadSingleFile(f))
        /\ UNCHANGED <<engine, disk, calls, index_ready, threads, tree>>

\* load_documents(path) for a path that is a directory
load_documents_dir ==
    /\ last' = Call("load_documents", tree, "ok", LoadDir(tree))
    /\ UNCHANGED <<engine, disk, calls, index_ready, threads, tree>>

---------------------------------------------------------------------------
(* Specifications *)

\* one more call, of at most `limit`
Step(limit) == calls < limit /\ calls' = calls + 1

\* runs of builds, saves, loads and new pipeline objects
Next ==
    \/ Step(MaxCalls) /\ init
    \/ Step(MaxCalls) /\ build_vector_index
    \/ Step(MaxCalls) /\ build_knowledge_graph
    \/ Step(MaxCalls) /\ save
    \/ Step(MaxCalls) /\ load

Spec == Init /\ [][Next]_vars

\* runs of builds and searches
NextSearch ==
    \/ Step(MaxSearchCalls) /\ build_vector_index
    \/ Step(MaxSearchCalls) /\ build_knowledge_graph
    \/ Step(MaxSearchCalls) /\ vector_search
    \/ Step(MaxSearchCalls) /\ graph_search
    \/ Step(MaxSearchCalls) /\ hybrid_search
    \/ Step(MaxSearchCalls) /\ query

SpecSearch == Init /\ [][NextSearch]_vars

\* runs of graph builds alone, of any length
NextGraph ==
    \/ UNCHANGED calls /\ init
    \/ UNCHANGED calls /\ build_knowledge_graph

SpecGraph == Init /\ [][NextGraph]_vars

\* a thread that builds and a thread that searches, interleaved between
\* statements
NextConc ==
    \/ Step(MaxConcCalls) /\ bvi_assign
    \/ UNCHANGED calls /\ bvi_encode
    \/ UNCHANGED calls /\ bvi_attach
    \/ UNCHANGED calls /\ bvi_create
    \/ UNCHANGED calls /\ bvi_add
    \/ Step(MaxConcCalls) /\ vs_check
    \/ UNCHANGED calls /\ vs_search
    \/ UNCHANGED calls /\ vs_collect

SpecConc == Init /\ [][NextConc]_vars

\* load_documents on the files of a directory
InitLoader == InitPipeline /\ tree \in Trees

NextLoader ==
    \/ load_documents_file
    \/ load_documents_dir

SpecLoader == InitLoader /\ [][NextLoader]_vars

---------------------------------------------------------------------------
(* Properties *)

DocIds(docs) == {docs[i].doc_id : i \in 1..Len(docs)}

Min(a, b) == IF a < b THEN a ELSE b

\* the graph holds nodes: a graph build or a load has filled it
GraphBuilt == DOMAIN knowledge_graph.node # {}

\* the index holds one row per document, row i the embedding of document i
Aligned(docs, index) ==
    /\ Len(index.xb) = Len(docs)
    /\ \A i \in 1..Len(docs) : index.xb[i] = Encode(docs[i].content)

\* C1: whenever both the vector index and the graph are built, the ids of
\* the graph's document nodes are exactly the doc_ids of self.documents
\* (stated for the runs in which no call has raised).
C1_LockStep ==
    (last.clean /\ index_ready /\ GraphBuilt)
        => DocumentNodes(knowledge_graph) = DocIds(documents)

\* C2: whenever the vector index is built it holds len(self.documents)
\* rows, and row i is the embedding of self.documents[i].
C2_RowAlignment ==
    index_ready => Aligned(documents, vector_index)

\* C3: every (Document, distance) pair a vector_search returns, also one
\* that runs while build_vector_index runs in another thread, gives the
\* distance from the query to that document's own vector (stated for the
\* runs in which no call has raised; the pairs faiss pads a short result
\* with are left aside).
C3_SnapshotIsolation ==
    (last.clean /\ last.op = "vector_search")
        => \A i \in 1..Len(last.value) :
              last.value[i].dist # FLT_MAX
                  => last.value[i].dist
                       = L2(Encode(last.value[i].doc.content), Encode(last.arg[1]))

\* the last call was a search that goes through the vector index
VectorCall ==
    \/ last.op \in {"vector_search", "hybrid_search"}
    \/ last.op = "query" /\ last.arg[2] \in {"vector", "hybrid"}

\* C4: while no build_vector_index call has completed and no index was
\* loaded, vector_search, hybrid_search and query('vector' | 'hybrid') fail
\* with the not-built ValueError.
C4_SearchBeforeBuild ==
    (~index_ready /\ VectorCall) => last.outcome = NotBuilt

\* the persisted artifacts agree: no index row without a document, no
\* document node of the graph without a document
SnapshotConsistent(dsk) ==
    /\ dsk.vector_index.exists
         => Len(dsk.vector_index.data.xb) <= Len(dsk.documents.data)
    /\ dsk.knowledge_graph.exists
         => DocumentNodes(dsk.knowledge_graph.data) \subseteq DocIds(dsk.documents.data)

\* C5: load completes only on a snapshot whose artifacts are mutually
\* consistent (stated for the runs in which no call has raised).
C5_LoadVerifies ==
    (last.clean /\ last.op = "load") => SnapshotConsistent(disk)

\* C6: after load, a component whose file is absent is not built, whatever
\* the pipeline held before (stated for the runs in which no call has
\* raised).
C6_DegradedLoad ==
    (last.clean /\ last.op = "load")
        => /\ ~disk.vector_index.exists => vector_index.is_none
           /\ ~disk.knowledge_graph.exists => knowledge_graph = DiGraph

\* C7: right after save() returns, load() on a new pipeline object with the
\* same storage root yields the engine state that was saved (stated for the
\* runs in which no call has raised).
C7_RoundTrip ==
    (last.clean /\ last.op = "save")
        => Load(NewEngine, disk, "none").engine = Current

DiskFiles == {"documents", "vector_index", "knowledge_graph"}

\* C8: the artifacts present under the storage root were all written from
\* one and the same engine state (stated for the runs in which no call has
\* raised, so every save has run to its end).
C8_SaveAtomic ==
    last.clean =>
        \A f, g \in DiskFiles :
            (disk[f].exists /\ disk[g].exists) => disk[f].from = disk[g].from

\* C9: build_knowledge_graph(D) on a graph that the preceding call
\* build_knowledge_graph(D) produced leaves nodes, node attributes, edges
\* and edge labels as they are.
C9_Idempotent ==
    [][(last'.op = "build_knowledge_graph" /\ last'.value = TRUE)
          => knowledge_graph' = knowledge_graph]_vars

\* a graph build has just been repeated on a graph with a document that is
\* also another document's entity, with contains and same_source edges
C9_Witness ==
    /\ last.op = "build_knowledge_graph"
    /\ last.value = TRUE
    /\ \E e \in DOMAIN knowledge_graph.adj :
          knowledge_graph.adj[e] = [relation |-> "contains"]
    /\ \E e \in DOMAIN knowledge_graph.adj :
          /\ knowledge_graph.adj[e] = [relation |-> "same_source"]
          /\ e[2] \in UNION {Entities(d.content) : d \in DocPool}

\* C10: on a built index over N documents vector_search(q, k) returns
\* exactly min(k, N) pairs, for distinct rows, by non-decreasing distance
\* (stated for the runs in which no call has raised).
C10_ResultShape ==
    (/\ last.clean
     /\ last.op = "vector_search"
     /\ index_ready
     /\ Aligned(documents, vector_index))
        => /\ Len(last.value) = Min(last.arg[2], Len(documents))
           /\ \A i, j \in 1..Len(last.value) :
                 i < j => /\ last.value[i].dist <= last.value[j].dist
                          /\ last.value[i].doc # last.value[j].doc

\* [doc for doc, _ in results]
DocsOf(results) == [i \in 1..Len(results) |-> results[i].doc]

\* the engine is built: a vector build has returned and the rows match
Built == index_ready /\ Aligned(documents, vector_index)

\* C11: on a built engine hybrid_search(q, k, vector_weight = 1,
\* graph_weight = 0) returns the first k documents of vector_search(q, k), in
\* the same order (stated for the runs in which no call has raised).
C11_VectorOnlyFusion ==
    (/\ last.clean
     /\ Built
     /\ last.op = "hybrid_search"
     /\ last.arg[3] = <<10, 0>>)
        => last.value
             = FirstK(DocsOf(VectorSearch(documents, vector_index,
                                          last.arg[1], last.arg[2]).value),
                      last.arg[2])

\* C12: on a built engine hybrid_search(q, k, vector_weight = 0,
\* graph_weight = 1) returns a list that graph_search(q, k) returns: the
\* documents only the vector search found are not in it (stated for the
\* runs in which no call has raised).
C12_GraphOnlyFusion ==
    (/\ last.clean
     /\ Built
     /\ GraphBuilt
     /\ last.op = "hybrid_search"
     /\ last.arg[3] = <<0, 10>>)
        => last.value \in GraphSearch(documents, knowledge_graph,
                                      last.arg[1], last.arg[2])

\* the documents of self.documents that the graph records as mentioning an
\* entity the query names: a contains edge runs from the document's node to
\* the entity node of a query token longer than 3 characters
Mentioning(docs, G, q) ==
    {d \in Range(docs) :
        \E w \in Range(QueryEntities(q)) :
            /\ HasNode(G, w)
            /\ NodeType(G, w) = "entity"
            /\ <<d.doc_id, w>> \in DOMAIN G.adj}

\* C13: graph_search(q, k) returns the documents that mention an entity the
\* query names, when there are at most k of them (stated for the runs in
\* which no call has raised).
C13_EntitySeeded ==
    (/\ last.clean
     /\ last.op = "graph_search"
     /\ Cardinality(Mentioning(documents, knowledge_graph, last.arg[1]))
           <= last.arg[2])
        => Mentioning(documents, knowledge_graph, last.arg[1])
              \subseteq Range(last.value)

SearchOps == {"vector_search", "graph_search", "hybrid_search"}

\* C14: a vector_search, graph_search or hybrid_search call leaves
\* self.documents, the vector index and the knowledge graph as they were,
\* whether it returns results, returns an empty list or raises.
C14_ReadOnlyQueries ==
    [][last'.op \in SearchOps => engine' = engine]_vars

\* a vector_search has returned results on an engine with documents, index
\* rows and a graph with edges
C14_Witness ==
    /\ last.op = "vector_search"
    /\ last.outcome = "ok"
    /\ Len(last.value) > 0
    /\ Built
    /\ NumberOfEdges(knowledge_graph) > 0

\* G has an edge u -> v labelled rel
HasEdge(G, u, v, rel) ==
    <<u, v>> \in DOMAIN G.adj /\ G.adj[<<u, v>>] = [relation |-> rel]

\* the edges the build of docs is to produce: d -> x contains exactly for
\* the entity tokens x of d, d -> e same_source exactly for the other
\* documents e whose metadata.get("source") equals that of d
EdgesAsSpecified(G, docs) ==
    \A d \in Range(docs) :
        /\ \A x \in (DOMAIN G.node) \cup Entities(d.content) :
              HasEdge(G, d.doc_id, x, "contains") <=> x \in Entities(d.content)
        /\ \A e \in Range(docs) :
              HasEdge(G, d.doc_id, e.doc_id, "same_source")
                  <=> /\ d.doc_id # e.doc_id
                      /\ DictGet(d.metadata, "source") = DictGet(e.metadata, "source")

\* C15: build_knowledge_graph(D) on an empty graph produces exactly the
\* contains edges from each document to its entity tokens and the
\* same_source edges between the documents of equal source.
C15_EdgeSet ==
    [][(knowledge_graph = DiGraph /\ last'.op = "build_knowledge_graph")
          => EdgesAsSpecified(knowledge_graph', last'.arg)]_vars

\* C16: at the end of a build_knowledge_graph(D) call, after any sequence
\* of such calls, every edge the call added is present under its own label:
\* the contains edge of each document of D to each of its entities, and the
\* same_source edge between documents of D of equal source, also when both
\* join the same ordered pair of nodes.
C16_EdgeIdentity ==
    last.op = "build_knowledge_graph" =>
        \A d \in Range(last.arg) :
            /\ \A x \in Entities(d.content) :
                  HasEdge(knowledge_graph, d.doc_id, x, "contains")
            /\ \A e \in Range(last.arg) :
                  (/\ d.doc_id # e.doc_id
                   /\ DictGet(d.metadata, "source") = DictGet(e.metadata, "source"))
                      => HasEdge(knowledge_graph, d.doc_id, e.doc_id, "same_source")

\* the documents of self.documents that graph_search scores for the query:
\* a matched seed node, or a direct successor of one, typed 'document'
Candidates(docs, G, q) == ScoredDocs(G, q) \cap DocIds(docs)

\* C17: graph_search(q, k) returns only documents that are a matched seed
\* or a direct successor of one, min(k, number of such documents) of them,
\* each once, a document of larger score before one of smaller score
\* (stated for the runs in which no call has raised).
C17_GraphRanking ==
    (last.clean /\ last.op = "graph_search")
        => /\ \A i \in 1..Len(last.value) :
                 last.value[i].doc_id
                    \in Candidates(documents, knowledge_graph, last.arg[1])
           /\ Len(last.value)
                = Min(last.arg[2],
                      Cardinality(Candidates(documents, knowledge_graph, last.arg[1])))
           /\ \A i, j \in 1..Len(last.value) :
                 i < j => /\ last.value[i].doc_id # last.value[j].doc_id
                          /\ Degree(knowledge_graph, last.value[i].doc_id)
                               >= Degree(knowledge_graph, last.value[j].doc_id)

\* 1 / (1 + distance) for the distance of the document's own row: the
\* nearest entry of the vector results with this id (0 if there is none)
OwnVScore(vector_results, id) ==
    LET at == {i \in 1..Len(vector_results) : vector_results[i].doc.doc_id = id}
    IN IF at = {} THEN [num |-> 0, den |-> 1]
       ELSE [num |-> 1,
             den |-> 1 + vector_results[CHOOSE i \in at : \A j \in at : i <= j].dist]

\* vector_weight * v + graph_weight * g with v taken from the document's
\* own row
OwnCombined(vector_results, graph_results, w, id) ==
    LET v == OwnVScore(vector_results, id)
        g == GScore(graph_results, id)
    IN [num |-> w[1] * v.num * g.den + w[2] * g.num * v.den,
        den |-> v.den * g.den]

\* C18: hybrid_search(q, k, vw, gw) returns at most k documents, each once,
\* ordered by vw / (1 + distance) + gw / (rank + 1) descending, distance
\* being the document's distance to the query and rank its 0-based place in
\* the graph results (stated for the runs in which no call has raised).
C18_FusionRanking ==
    (last.clean /\ Built /\ last.op = "hybrid_search")
        => /\ Len(last.value) <= last.arg[2]
           /\ \A i, j \in 1..Len(last.value) :
                 i < j => last.value[i].doc_id # last.value[j].doc_id
           /\ \E gs \in GraphSearch(documents, knowledge_graph,
                                    last.arg[1], last.arg[2] * 2) :
                 LET vr == VectorSearch(documents, vector_index,
                                        last.arg[1], last.arg[2] * 2).value
                 IN \A i, j \in 1..Len(last.value) :
                       i < j =>
                          ~Less(OwnCombined(vr, gs, last.arg[3], last.value[i].doc_id),
                                OwnCombined(vr, gs, last.arg[3], last.value[j].doc_id))

\* C19: a load that raises, at whichever of its three reads, leaves
\* self.documents, self.vector_index and self.knowledge_graph as they were
\* before the call.
C19_FailedLoadAllOrNothing ==
    [][(last'.op = "load" /\ last'.outcome # "ok") => engine' = engine]_vars

\* C20: no two Document chunks of the list load_documents returns have the
\* same doc_id.
C20_UniqueIds ==
    last.op = "load_documents" =>
        \A i, j \in 1..Len(last.value) :
            i # j => last.value[i].doc_id # last.value[j].doc_id

\* "source" in metadata
HasSource(metadata) == \E kv \in metadata : kv[1] = "source"

\* C21: after build_knowledge_graph(D) every same_source edge joins two
\* documents whose metadata both hold a source key, with equal values; a
\* document without a source key is on no same_source edge.
C21_NoSourceNoEdge ==
    last.op = "build_knowledge_graph" =>
        \A e \in DOMAIN knowledge_graph.adj :
            knowledge_graph.adj[e] = [relation |-> "same_source"]
                => /\ HasSource(knowledge_graph.node[e[1]].metadata)
                   /\ HasSource(knowledge_graph.node[e[2]].metadata)
                   /\ DictGet(knowledge_graph.node[e[1]].metadata, "source")
                        = DictGet(knowledge_graph.node[e[2]].metadata, "source")

====
